---------------------------- MODULE Spec2Model ----------------------------
(***************************************************************************)
(* Result retrieval of clotho-ui (src/get_results.py): the predicate       *)
(* matcher test_hit, the paginated fetch loops get_all_hits,               *)
(* get_hit_assignments and get_all_assignments, and the table builder      *)
(* get_answer_data.                                                        *)
(*                                                                         *)
(* Python strings are sequences of one-character strings, records (dicts)  *)
(* are functions from field names to such sequences.                       *)
(***************************************************************************)
EXTENDS Integers, Sequences, FiniteSets, TLC

VARIABLES
    \* ---- test_hit called on its own (MatchSpec)
    t_pc,            \* "off" | "call" | "ret"
    t_hit,           \* the record handed to test_hit
    t_params,        \* the predicate spec handed to test_hit
    t_ret,           \* the value test_hit returned
    \* ---- the fetch: get_all_hits, alone or called by get_all_assignments
    pc,              \* the line the program is at, "off" when it does not run
    entry,           \* the function that was called: "get_all_hits" | "get_all_assignments"
    exc,             \* the exception that left the entry function, "none" if none
    pages,           \* the remote listing of HITs: its pages of positive count
    served,          \* the number of assignments the remote holds for each HIT asked for so far
    hit_search_params,
    assignment_search_params,
    max_hits,
    stop_after_first,
    print_info,      \* get_all_assignments' print_info
    \* get_all_hits
    h_results,       \* results
    gathered,
    processed,
    done,
    q,               \* the page in hand
    nt,
    h_i,             \* position of "for hit in q['HITs']", from 1
    h_state,         \* "running" | "returned" | "raised"
    h_interrupted,   \* a KeyboardInterrupt reached get_all_hits' handler
    requested,       \* the tokens list_hits has been called with
    first_page,      \* <<token>> of the page the first accepted HIT was on, <<>> before
    \* get_all_assignments
    hits,            \* the list get_all_hits returned
    a_results,       \* results
    hit_data,
    cnt,             \* <<>> while the local is unbound, else <<its value>>
    a_i,             \* HITs of "for hit in hits" begun so far
    assignments,     \* the list get_hit_assignments returned
    a_j,             \* position of "for assignment in assignments", from 1
    a_interrupted,   \* <<>>, or <<k>>: interrupted at the HIT of (0-based) index k
    reported,        \* <<>>, or <<the HIT count the interruption message states>>
    \* get_hit_assignments
    g_results,       \* results
    g_q,             \* the page in hand
    g_nt,
    \* ---- get_answer_data from line 122 on (TableSpec)
    d_pc,            \* "off" | "scan" | "build" | "done" | "raised"
    d_assignments,   \* assignments
    d_hit_data,      \* hit_data
    answer_names,
    d_results,       \* results: column name -> cells
    d_i,             \* assignments the loop in progress has dealt with
    d_exc,           \* the exception that left get_answer_data, "none" if none
    \* ---- write_ans_data_file (WriteSpec)
    w_pc,            \* "off" | "select" | "open" | "rows" | "done" | "raised"
    w_data,          \* data: column name -> cells
    w_keys,          \* list(data.keys()): the columns in the table's order
    w_ofile,         \* ofile
    w_ignore,        \* ignore
    w_select,        \* select
    w_titles,        \* titles
    w_row,           \* data rows written so far
    w_exc,           \* the exception that left write_ans_data_file, "none" if none
    disk,            \* the files that exist: path -> rows
    opened,          \* the paths opened for writing, each with whether it existed
    \* ---- main, and get_answer_data's call parameters (RunSpec)
    m_path,          \* config['CURRENT']['output_data_file']
    out_file,        \* main's out_file
    m_i,             \* main's i
    a_ofile,         \* get_answer_data's ofile
    write            \* get_answer_data's write

t_vars == <<t_pc, t_hit, t_params, t_ret>>

in_vars == <<entry, pages, hit_search_params, assignment_search_params, max_hits,
             stop_after_first, print_info>>

h_vars == <<h_results, gathered, processed, done, q, nt, h_i, h_state, h_interrupted,
            requested, first_page>>

a_vars == <<hits, a_results, hit_data, cnt, a_i, assignments, a_j, a_interrupted,
            reported, served>>

g_vars == <<g_results, g_q, g_nt>>

f_vars == <<pc, exc, in_vars, h_vars, a_vars, g_vars>>

d_vars == <<d_pc, d_assignments, d_hit_data, answer_names, d_results, d_i, d_exc>>

w_vars == <<w_pc, w_data, w_keys, w_ofile, w_ignore, w_select, w_titles, w_row, w_exc,
            disk, opened>>

r_vars == <<m_path, out_file, m_i, a_ofile, write>>

vars == <<t_vars, f_vars, d_vars, w_vars, r_vars>>

----------------------------------------------------------------------------
(* Bounds of the model.                                                    *)

\* characters strings are made of: two letters and the two pattern markers
Chars == {"a", "b", "+", "-"}

\* characters in a string handed to test_hit
MaxStrLen == 2

\* patterns in one field's pattern list
MaxPats == 2

\* HITs in the remote listing get_all_hits is called on
MaxItems == 3

\* HITs in the remote listing get_all_assignments is called on
MaxHits == 2

\* assignments the remote holds for one HIT
MaxAsg == 2

\* assignments handed to get_answer_data's table builder
MaxRows == 3

\* assignments on a page of a HIT's listing of assignments
AsgPageSize == 1

\* columns of a table handed to write_ans_data_file
MaxCols == 3

\* rows of a table handed to write_ans_data_file
MaxWriteRows == 2

\* files out(1), out(2), ... that may exist when main starts
MaxSuffix == 2

\* HITs in the remote listing a whole run is made on
MaxRunHits == 2

\* the field names of the records and specs handed to test_hit
MatchFields == {"Status", "Title"}

NoFields == [f \in {} |-> <<>>]

\* strings of at most n characters
Strs(n) == UNION {[1..k -> Chars] : k \in 0..n}

\* Python s[a:] for a = 1
Rest(p) == SubSeq(p, 2, Len(p))

\* sequences of at most n members of S
SeqsUpTo(S, n) == UNION {[1..k -> S] : k \in 0..n}

NoRepeats(s) == \A i, j \in 1..Len(s) : i # j => s[i] # s[j]

Range(s) == { s[k] : k \in 1..Len(s) }

RECURSIVE Flatten(_)
Flatten(ps) == IF ps = <<>> THEN <<>> ELSE Head(ps) \o Flatten(Tail(ps))

----------------------------------------------------------------------------
(* test_hit, src/get_results.py:27-67                                      *)

startswith(h, s) == Len(s) <= Len(h) /\ SubSeq(h, 1, Len(s)) = s

endswith(h, s) == Len(s) <= Len(h) /\ SubSeq(h, Len(h) - Len(s) + 1, Len(h)) = s

\* The '-' branch tested with startswith.
test_one_suffix_as_prefix(p, h) ==
    IF p = <<>> THEN p = h
    ELSE IF p[1] = "+" THEN startswith(h, Rest(p))
    ELSE IF p[1] = "-" THEN startswith(h, Rest(p))
    ELSE p = h

\* test_one: a branch that falls off the end returns None, which any() takes
\* as false.
test_one(p, h) ==
    IF p = <<>> THEN p = h
    ELSE IF p[1] = "+" THEN (IF startswith(h, Rest(p)) THEN TRUE ELSE FALSE)
    ELSE IF p[1] = "-" THEN (IF endswith(h, Rest(p)) THEN TRUE ELSE FALSE)
    ELSE p = h

\* any(test_one(p, h) for p in pars), left to right
RECURSIVE any_test_one(_, _)
any_test_one(pars, h) ==
    IF pars = <<>> THEN FALSE
    ELSE IF test_one(Head(pars), h) THEN TRUE
    ELSE any_test_one(Tail(pars), h)

\* the loop "for i in params" over the fields still to visit
RECURSIVE test_fields(_, _, _)
test_fields(h, ps, todo) ==
    IF todo = {} THEN TRUE
    ELSE LET i == CHOOSE f \in todo : TRUE
         IN  IF i \notin DOMAIN h THEN FALSE
             ELSE IF any_test_one(ps[i], h[i]) THEN test_fields(h, ps, todo \ {i})
             ELSE FALSE

test_hit(h, ps) == test_fields(h, ps, DOMAIN ps)

\* a pattern that is not a string but an int
IntPattern == <<"5 (int)">>

\* test_one(p, h) raises TypeError: for an int p, p == '' is false and p[0]
\* (line 49) is not defined
test_one_raises(p, h) == p = IntPattern

\* any(...) of line 62 raises: it meets an int before a pattern that matches
RECURSIVE any_raises(_, _)
any_raises(pars, h) ==
    IF pars = <<>> THEN FALSE
    ELSE IF test_one_raises(Head(pars), h) THEN TRUE
    ELSE IF test_one(Head(pars), h) THEN FALSE
    ELSE any_raises(Tail(pars), h)

\* the loop of lines 58-67 raises: in a field it reaches
RECURSIVE fields_raise(_, _, _)
fields_raise(h, ps, todo) ==
    IF todo = {} THEN FALSE
    ELSE LET i == CHOOSE f \in todo : TRUE
         IN  IF i \notin DOMAIN h THEN FALSE
             ELSE IF any_raises(ps[i], h[i]) THEN TRUE
             ELSE IF any_test_one(ps[i], h[i]) THEN fields_raise(h, ps, todo \ {i})
             ELSE FALSE

\* test_hit(h, ps) raises TypeError
test_hit_raises(h, ps) == fields_raise(h, ps, DOMAIN ps)

----------------------------------------------------------------------------
(* The remote service.  A listing is a sequence of pages of positive       *)
(* count; the page after the last is the page of count zero.  A token is   *)
(* <<n>>, naming page n; <<>> stands for the token a page of count zero    *)
(* does not carry.                                                         *)

FirstToken == <<1>>

NoToken == <<>>

Page(listing, tok) ==
    IF tok # NoToken /\ tok[1] <= Len(listing)
    THEN [NumResults |-> Len(listing[tok[1]]), Items |-> listing[tok[1]],
          NextToken |-> <<tok[1] + 1>>]
    ELSE [NumResults |-> 0, Items |-> <<>>, NextToken |-> NoToken]

\* client.list_hits(MaxResults=100) and client.list_hits(NextToken=nt, MaxResults=100)
list_hits(tok) == Page(pages, tok)

Id(n) == <<ToString(n)>>

\* the n-th HIT of the listing, with RequesterAnnotation ann
HIT(n, ann) == ("HITId" :> Id(n)) @@ ("RequesterAnnotation" :> ann)

Annotations == { <<"a">>, <<"b">> }

Approve == <<"A">>

Submit == <<"S">>

\* the Answer document of the j-th assignment of a HIT, as the sequence of
\* the <<QuestionIdentifier, value>> pairs of its Answer elements: the first
\* answers a and b, the second b and Title, the later ones a alone
AnswerDocument(j) ==
    IF j = 1 THEN << <<"a", <<"1">> >>, <<"b", <<"2">> >> >>
    ELSE IF j = 2 THEN << <<"b", <<"3">> >>, <<"Title", <<"4">> >> >>
    ELSE << <<"a", <<"5">> >> >>

\* the j-th assignment of the HIT hid: the odd ones are approved, the even
\* ones submitted
Assignment(hid, j) ==
    ("AssignmentId" :> hid \o <<".">> \o Id(j)) @@ ("HITId" :> hid)
    @@ ("AssignmentStatus" :> IF j % 2 = 1 THEN Approve ELSE Submit)
    @@ ("Answer" :> AnswerDocument(j))

\* s cut into pages of k items, the last one possibly shorter
RECURSIVE Chunks(_, _)
Chunks(s, k) ==
    IF s = <<>> THEN <<>>
    ELSE IF Len(s) <= k THEN <<s>>
    ELSE <<SubSeq(s, 1, k)>> \o Chunks(SubSeq(s, k + 1, Len(s)), k)

\* every way to cut s into pages of positive count
RECURSIVE Partitions(_)
Partitions(s) ==
    IF s = <<>> THEN {<<>>}
    ELSE UNION { { <<SubSeq(s, 1, k)>> \o r : r \in Partitions(SubSeq(s, k + 1, Len(s))) }
                 : k \in 1..Len(s) }

\* the listing of the n assignments the remote holds for HIT hid
AssignmentListing(hid, n) == Chunks([j \in 1..n |-> Assignment(hid, j)], AsgPageSize)

\* client.list_assignments_for_hit(HITId=hitid[, NextToken=nt])
list_assignments_for_hit(hid, tok) == Page(AssignmentListing(hid, served[Len(served)]), tok)

----------------------------------------------------------------------------
(* get_all_hits, src/get_results.py:212-271                                *)

\* the loop test taking the page of count zero for one more page
hits_more_on_empty(page) == page.NumResults >= 0

\* line 243: while q['NumResults'] > 0
hits_more(page) == page.NumResults > 0

\* the HIT put in front of the result
hits_prepend(res, hit) == <<hit>> \o res

\* line 259: results.append(hit)
hits_append(res, hit) == Append(res, hit)

\* the limit counting the HITs accepted
limit_on_gathered == 0 < max_hits /\ max_hits <= gathered

\* line 246: 0 < max_hits <= processed
limit_reached == 0 < max_hits /\ max_hits <= processed

\* line 241: q = client.list_hits(MaxResults=100), before the try
HitsFirstPage ==
    /\ pc = "h_call"
    /\ q' = list_hits(FirstToken)
    /\ requested' = requested \cup {FirstToken}
    /\ pc' = "h_while"
    /\ UNCHANGED <<exc, in_vars, h_results, gathered, processed, done, nt, h_i, h_state,
                   h_interrupted, first_page, a_vars, g_vars>>

\* lines 243-244: the loop test, and nt = q['NextToken'] when it passes
HitsWhile ==
    /\ pc = "h_while"
    /\ IF hits_more(q)
       THEN nt' = q.NextToken /\ h_i' = 1 /\ pc' = "h_for"
       ELSE pc' = "h_ret" /\ UNCHANGED <<nt, h_i>>
    /\ UNCHANGED <<exc, in_vars, h_results, gathered, processed, done, q, h_state,
                   h_interrupted, requested, first_page, a_vars, g_vars>>

\* lines 245-260: one round of "for hit in q['HITs']"
HitsItem ==
    /\ pc = "h_for"
    /\ IF h_i > Len(q.Items)
       THEN /\ pc' = "h_after"
            /\ UNCHANGED <<h_results, gathered, processed, done, h_i, first_page>>
       ELSE LET hit == q.Items[h_i] IN
            IF limit_reached
            THEN /\ done' = 1
                 /\ pc' = "h_after"
                 /\ UNCHANGED <<h_results, gathered, processed, h_i, first_page>>
            ELSE /\ processed' = processed + 1
                 /\ IF ~test_hit(hit, hit_search_params)
                    THEN IF gathered # 0 /\ stop_after_first
                         THEN /\ done' = 1
                              /\ pc' = "h_after"
                              /\ UNCHANGED <<h_results, gathered, h_i, first_page>>
                         ELSE /\ h_i' = h_i + 1
                              /\ pc' = "h_for"
                              /\ UNCHANGED <<h_results, gathered, done, first_page>>
                    ELSE /\ h_results' = hits_append(h_results, hit)
                         /\ gathered' = gathered + 1
                         /\ first_page' = IF gathered = 0 THEN <<nt[1] - 1>> ELSE first_page
                         /\ h_i' = h_i + 1
                         /\ pc' = "h_for"
                         /\ UNCHANGED done
    /\ UNCHANGED <<exc, in_vars, q, nt, h_state, h_interrupted, requested, a_vars, g_vars>>

\* lines 262-263: if done: break
HitsBreak ==
    /\ pc = "h_after"
    /\ done # 0
    /\ pc' = "h_ret"
    /\ UNCHANGED <<exc, in_vars, h_vars, a_vars, g_vars>>

\* line 264: q = client.list_hits(NextToken=nt, MaxResults=100)
HitsNextPage ==
    /\ pc = "h_after"
    /\ done = 0
    /\ q' = list_hits(nt)
    /\ requested' = requested \cup {nt}
    /\ pc' = "h_while"
    /\ UNCHANGED <<exc, in_vars, h_results, gathered, processed, done, nt, h_i, h_state,
                   h_interrupted, first_page, a_vars, g_vars>>

\* a KeyboardInterrupt during the request of line 241, which no try encloses:
\* it leaves get_all_hits, and get_all_assignments, which calls it outside
\* its own try
HitsInterruptFirst ==
    /\ pc = "h_call"
    /\ h_state' = "raised"
    /\ exc' = "KeyboardInterrupt"
    /\ pc' = "raised"
    /\ UNCHANGED <<in_vars, h_results, gathered, processed, done, q, nt, h_i,
                   h_interrupted, requested, first_page, a_vars, g_vars>>

\* lines 265-266: a KeyboardInterrupt inside the try of lines 242-264
HitsInterrupt ==
    /\ pc \in {"h_while", "h_for", "h_after"}
    /\ h_interrupted' = TRUE
    /\ pc' = "h_ret"
    /\ UNCHANGED <<exc, in_vars, h_results, gathered, processed, done, q, nt, h_i,
                   h_state, requested, first_page, a_vars, g_vars>>

\* line 271: return results; to the caller, or to line 337 of
\* get_all_assignments, where cnt = 0 is bound only under print_info
HitsReturn ==
    /\ pc = "h_ret"
    /\ h_state' = "returned"
    /\ hits' = h_results
    /\ IF entry = "get_all_hits"
       THEN pc' = "done" /\ UNCHANGED cnt
       ELSE pc' = "a_for" /\ cnt' = IF print_info THEN <<0>> ELSE <<>>
    /\ UNCHANGED <<exc, in_vars, h_results, gathered, processed, done, q, nt, h_i,
                   h_interrupted, requested, first_page, a_results, hit_data, a_i,
                   assignments, a_j, a_interrupted, reported, served, g_vars>>

----------------------------------------------------------------------------
(* get_hit_assignments, src/get_results.py:274-300, as get_all_assignments *)
(* calls it: with the default, empty assignment_search_params              *)

\* the loop test taking the page of count zero for one more page
assignments_more_on_empty(page) == page.NumResults >= 0

\* line 292: while q['NumResults'] > 0
assignments_more(page) == page.NumResults > 0

\* hitid
g_hitid == hits[a_i]["HITId"]

\* line 291: q = client.list_assignments_for_hit(HITId=hitid); the remote
\* holds any number of assignments up to MaxAsg for this HIT
AssignmentsFirstPage ==
    /\ pc = "g_call"
    /\ \E n \in 0..MaxAsg :
          /\ served' = Append(served, n)
          /\ g_q' = Page(AssignmentListing(g_hitid, n), FirstToken)
    /\ pc' = "g_while"
    /\ UNCHANGED <<exc, in_vars, h_vars, hits, a_results, hit_data, cnt, a_i, assignments,
                   a_j, a_interrupted, reported, g_results, g_nt>>

\* lines 292-297: the loop test and, when it passes, the scan of the page
AssignmentsWhile ==
    /\ pc = "g_while"
    /\ IF assignments_more(g_q)
       THEN /\ g_nt' = g_q.NextToken
            /\ g_results' = g_results \o SelectSeq(g_q.Items, LAMBDA a : test_hit(a, NoFields))
            /\ pc' = "g_next"
            /\ UNCHANGED <<assignments, a_j>>
       ELSE \* line 300: return results, to line 347
            /\ assignments' = g_results
            /\ a_j' = 1
            /\ pc' = "a_filter"
            /\ UNCHANGED <<g_results, g_nt>>
    /\ UNCHANGED <<exc, in_vars, h_vars, hits, a_results, hit_data, cnt, a_i,
                   a_interrupted, reported, served, g_q>>

\* line 298: q = client.list_assignments_for_hit(HITId=hitid, NextToken=nt)
AssignmentsNextPage ==
    /\ pc = "g_next"
    /\ g_q' = list_assignments_for_hit(g_hitid, g_nt)
    /\ pc' = "g_while"
    /\ UNCHANGED <<exc, in_vars, h_vars, a_vars, g_results, g_nt>>

----------------------------------------------------------------------------
(* get_all_assignments, src/get_results.py:303-355                         *)

\* the entry left out
index_unchanged(index, hit) == index

\* line 346: hit_data[hit['HITId']] = hit
index_insert(index, hit) ==
    [k \in DOMAIN index \cup {hit["HITId"]} |-> IF k = hit["HITId"] THEN hit ELSE index[k]]

\* lines 342-347: "for hit in hits" takes the next HIT, or ends
AssignNextHit ==
    /\ pc = "a_for"
    /\ IF a_i = Len(hits)
       THEN /\ pc' = "a_ret"
            /\ UNCHANGED <<hit_data, a_i, g_results>>
       ELSE /\ a_i' = a_i + 1
            /\ hit_data' = index_insert(hit_data, hits[a_i + 1])
            /\ g_results' = <<>>
            /\ pc' = "g_call"
    /\ UNCHANGED <<exc, in_vars, h_vars, hits, a_results, cnt, assignments, a_j,
                   a_interrupted, reported, served, g_q, g_nt>>

\* lines 348-350: one round of "for assignment in assignments"
AssignFilter ==
    /\ pc = "a_filter"
    /\ IF a_j > Len(assignments)
       THEN pc' = "a_cnt" /\ UNCHANGED <<a_results, a_j>>
       ELSE /\ a_results' = IF test_hit(assignments[a_j], assignment_search_params)
                            THEN Append(a_results, assignments[a_j])
                            ELSE a_results
            /\ a_j' = a_j + 1
            /\ pc' = "a_filter"
    /\ UNCHANGED <<exc, in_vars, h_vars, hits, hit_data, cnt, a_i, assignments,
                   a_interrupted, reported, served, g_vars>>

\* line 351: cnt += 1, an UnboundLocalError when line 339 did not run
AssignCount ==
    /\ pc = "a_cnt"
    /\ IF cnt = <<>>
       THEN exc' = "UnboundLocalError" /\ pc' = "raised" /\ UNCHANGED cnt
       ELSE cnt' = <<cnt[1] + 1>> /\ pc' = "a_for" /\ UNCHANGED exc
    /\ UNCHANGED <<in_vars, h_vars, hits, a_results, hit_data, a_i, assignments, a_j,
                   a_interrupted, reported, served, g_vars>>

\* lines 352-353: a KeyboardInterrupt inside the try of lines 341-351, the
\* calls of get_hit_assignments included; the message reads cnt (and size),
\* an UnboundLocalError when line 339 did not run
AssignInterrupt ==
    /\ pc \in {"a_for", "g_call", "g_while", "g_next", "a_filter", "a_cnt"}
    /\ a_interrupted' = <<IF pc = "a_for" THEN a_i ELSE a_i - 1>>
    /\ IF cnt = <<>>
       THEN exc' = "UnboundLocalError" /\ pc' = "raised" /\ UNCHANGED reported
       ELSE reported' = cnt /\ pc' = "a_ret" /\ UNCHANGED exc
    /\ UNCHANGED <<in_vars, h_vars, hits, a_results, hit_data, cnt, a_i, assignments, a_j,
                   served, g_vars>>

\* line 355: return results, hit_data
AssignReturn ==
    /\ pc = "a_ret"
    /\ pc' = "done"
    /\ UNCHANGED <<exc, in_vars, h_vars, a_vars, g_vars>>

----------------------------------------------------------------------------
(* get_answer_data, src/get_results.py:70-164, from line 122 on: the       *)
(* assignments and the index are those get_all_assignments returned.       *)

\* line 106
header == <<"HITId", "Title", "AssignmentId", "WorkerId", "AssignmentStatus",
            "RejectionTime", "RequesterAnnotation">>

\* An Answer document is the sequence of the <<QuestionIdentifier, value>>
\* pairs of its Answer elements.
\* xmltodict.parse(assignment['Answer'])['QuestionFormAnswers']['Answer']:
\* a list of dicts for two elements or more, the one dict itself for one
\* element, a KeyError for none
xml_answers(doc) ==
    IF Len(doc) = 0 THEN [kind |-> "KeyError", value |-> <<>>]
    ELSE IF Len(doc) = 1 THEN [kind |-> "dict", value |-> doc[1]]
    ELSE [kind |-> "list", value |-> doc]

\* what lines 124-126 and 136, 146-147 raise: nothing for a list; for the
\* one dict "for answer in answers" yields its keys, and
\* answer['QuestionIdentifier'] indexes a str
answers_raise(parsed) ==
    IF parsed.kind = "list" THEN "none"
    ELSE IF parsed.kind = "dict" THEN "TypeError"
    ELSE parsed.kind

\* the test of line 127 without its header part
is_new_name_any(var_name, names) == var_name \notin Range(names)

\* line 127: var_name not in header and var_name not in answer_names
is_new_name(var_name, names) == var_name \notin Range(header) /\ var_name \notin Range(names)

\* lines 125-128 over the answers of one assignment
RECURSIVE scan_answers(_, _)
scan_answers(answers, names) ==
    IF answers = <<>> THEN names
    ELSE LET var_name == Head(answers)[1]
         IN  scan_answers(Tail(answers),
                          IF is_new_name(var_name, names) THEN Append(names, var_name)
                          ELSE names)

\* the assignment looked at before the HIT
header_cell_assignment_first(h, hit, assignment) ==
    IF h \in DOMAIN assignment THEN assignment[h]
    ELSE IF h \in DOMAIN hit THEN hit[h]
    ELSE <<>>

\* lines 138-144: the cell of column h
header_cell(h, hit, assignment) ==
    IF h \in DOMAIN hit THEN hit[h]
    ELSE IF h \in DOMAIN assignment THEN assignment[h]
    ELSE <<>>

\* lines 146-153 over the answers of one assignment: results[var_name].append(val)
RECURSIVE append_answers(_, _)
append_answers(answers, table) ==
    IF answers = <<>> THEN table
    ELSE LET var_name == Head(answers)[1]
             val == Head(answers)[2]
         IN  append_answers(Tail(answers),
                            [table EXCEPT ![var_name] = Append(@, val)])

\* lines 156-159: count is read once, then every answer column of another
\* length gets one ''
fill_blanks(table, names) ==
    LET count == Len(table["HITId"])
    IN  [c \in DOMAIN table |->
            IF c \in Range(names) /\ Len(table[c]) # count
            THEN Append(table[c], <<>>)
            ELSE table[c]]

\* lines 123-128: one round of the first "for assignment in assignments"
TableScan ==
    /\ d_pc = "scan"
    /\ d_i < Len(d_assignments)
    /\ LET parsed == xml_answers(d_assignments[d_i + 1]["Answer"]) IN
       IF answers_raise(parsed) # "none"
       THEN /\ d_exc' = answers_raise(parsed)
            /\ d_pc' = "raised"
            /\ UNCHANGED <<answer_names, d_i>>
       ELSE /\ answer_names' = scan_answers(parsed.value, answer_names)
            /\ d_i' = d_i + 1
            /\ UNCHANGED <<d_pc, d_exc>>
    /\ UNCHANGED <<d_assignments, d_hit_data, d_results>>

\* lines 130-133: the empty columns
TableColumns ==
    /\ d_pc = "scan"
    /\ d_i = Len(d_assignments)
    /\ d_results' = [c \in Range(header) \cup Range(answer_names) |-> <<>>]
    /\ d_i' = 0
    /\ d_pc' = "build"
    /\ UNCHANGED <<d_assignments, d_hit_data, answer_names, d_exc>>

\* lines 134-159: one round of the second "for assignment in assignments"
TableRow ==
    /\ d_pc = "build"
    /\ d_i < Len(d_assignments)
    /\ LET assignment == d_assignments[d_i + 1]
           hit == d_hit_data[assignment["HITId"]]
           answers == xml_answers(assignment["Answer"]).value
           fixed == [c \in DOMAIN d_results |->
                        IF c \in Range(header)
                        THEN Append(d_results[c], header_cell(c, hit, assignment))
                        ELSE d_results[c]]
       IN  d_results' = fill_blanks(append_answers(answers, fixed), answer_names)
    /\ d_i' = d_i + 1
    /\ UNCHANGED <<d_pc, d_assignments, d_hit_data, answer_names, d_exc>>

\* lines 161-164 with write false: return results
TableReturn ==
    /\ d_pc = "build"
    /\ d_i = Len(d_assignments)
    /\ ~write
    /\ d_pc' = "done"
    /\ UNCHANGED <<d_assignments, d_hit_data, answer_names, d_results, d_i, d_exc>>

----------------------------------------------------------------------------
(* write_ans_data_file, src/get_results.py:167-209.  A file is the         *)
(* sequence of the rows written to it; the directories are not part of the *)
(* state.  The character that is not ASCII is written "xe7" (c cedilla,    *)
(* which replace_non_ascii knows) or "xe9" (e acute, which it does not).   *)

\* lines 187-188
score_preset == <<"HITId", "Title", "AssignmentId", "WorkerId", "assignments", "audioUrl",
                  "captions", "accuracy_scores", "fluency_scores", "Feedback">>

\* select=[] (the default), select='score', select=[names]
DefaultSelect == [kind |-> "list", names |-> <<>>]

ScoreSelect == [kind |-> "score", names |-> <<>>]

ListSelect(names) == [kind |-> "list", names |-> names]

\* lines 184-188: the list select stands for
select_columns(select, keys) ==
    IF select = DefaultSelect THEN keys
    ELSE IF select.kind = "score" THEN score_preset
    ELSE select.names

\* the header without its test of ignore
write_titles_keep_ignored(select, ignore, data) ==
    SelectSeq(select, LAMBDA i : i \in DOMAIN data)

\* line 194: titles = [i for i in select if i not in ignore and i in data]
write_titles(select, ignore, data) ==
    SelectSeq(select, LAMBDA i : i \notin ignore /\ i \in DOMAIN data)

\* line 198: the columns of a row, [j for j in titles if j not in ignore and j in select]
row_columns(titles, ignore, select) ==
    SelectSeq(titles, LAMBDA j : j \notin ignore /\ j \in Range(select))

NonAscii == {"xe7", "xe9"}

\* tools.replace_non_ascii on one character, src/tools.py:122-129
replace_char(c) == IF c = "xe7" THEN "c" ELSE c

\* lines 200-207: '' for an empty cell; the text itself when it is ASCII,
\* else replace_non_ascii of it
ascii_cell(v) ==
    IF v = <<>> THEN <<>>
    ELSE IF \E k \in 1..Len(v) : v[k] \in NonAscii
         THEN [k \in 1..Len(v) |-> replace_char(v[k])]
         ELSE v

\* line 198 and 199-207: row i (from 1) of the file
write_row(cols, data, i) == [k \in 1..Len(cols) |-> ascii_cell(data[cols[k]][i])]

\* disk after open(ofile, 'w'): the file exists and is empty
truncate(files, ofile) ==
    [f \in DOMAIN files \cup {ofile} |-> IF f = ofile THEN <<>> ELSE files[f]]

\* lines 184-188
WriteSelect ==
    /\ w_pc = "select"
    /\ w_select' = ListSelect(select_columns(w_select, w_keys))
    /\ w_pc' = "open"
    /\ UNCHANGED <<w_data, w_keys, w_ofile, w_ignore, w_titles, w_row, w_exc, disk, opened>>

\* lines 190-195: the file is opened for writing and gets its header row
WriteOpen ==
    /\ w_pc = "open"
    /\ w_titles' = write_titles(w_select.names, w_ignore, w_data)
    /\ disk' = [truncate(disk, w_ofile) EXCEPT ![w_ofile] = <<w_titles'>>]
    /\ opened' = Append(opened, [path |-> w_ofile, existed |-> w_ofile \in DOMAIN disk])
    /\ w_row' = 0
    /\ w_pc' = "rows"
    /\ UNCHANGED <<w_data, w_keys, w_ofile, w_ignore, w_select, w_exc>>

\* lines 197-209: one round of "for i in range(len(data[titles[0]]))", or
\* its end; titles[0] of an empty titles is an IndexError, and so is
\* data[j][i] of a column shorter than the first
WriteRow ==
    /\ w_pc = "rows"
    /\ LET cols == row_columns(w_titles, w_ignore, w_select.names) IN
       IF w_titles = <<>>
       THEN /\ w_exc' = "IndexError"
            /\ w_pc' = "raised"
            /\ UNCHANGED <<w_row, disk>>
       ELSE IF w_row = Len(w_data[w_titles[1]])
       THEN /\ w_pc' = "done"
            /\ UNCHANGED <<w_row, w_exc, disk>>
       ELSE IF \E k \in 1..Len(cols) : Len(w_data[cols[k]]) < w_row + 1
       THEN /\ w_exc' = "IndexError"
            /\ w_pc' = "raised"
            /\ UNCHANGED <<w_row, disk>>
       ELSE /\ disk' = [disk EXCEPT ![w_ofile] = Append(@, write_row(cols, w_data, w_row + 1))]
            /\ w_row' = w_row + 1
            /\ UNCHANGED <<w_pc, w_exc>>
    /\ UNCHANGED <<w_data, w_keys, w_ofile, w_ignore, w_select, w_titles, opened>>

----------------------------------------------------------------------------
(* get_answer_data as a whole, src/get_results.py:70-164, and main,        *)
(* src/get_results.py:358-386.  A path is its file name, a sequence of     *)
(* characters.                                                             *)

\* pathlib's suffix: from the last dot of the name, unless that dot is the
\* first or the last character
suffix(path) ==
    LET dots == { k \in 2..Len(path) : path[k] = "." }
        last == IF dots = {} THEN 0 ELSE CHOOSE k \in dots : \A d \in dots : d <= k
    IN  IF last = 0 \/ last = Len(path) THEN <<>> ELSE SubSeq(path, last, Len(path))

\* pathlib's stem: the name without its suffix
stem(path) == SubSeq(path, 1, Len(path) - Len(suffix(path)))

\* the number put after the suffix
add_i_after_suffix(path, i) == path \o <<"(", ToString(i), ")">>

\* line 375: add_i = lambda path: path.with_name(path.stem + f'({i}){path.suffix}')
add_i(path, i) == stem(path) \o <<"(", ToString(i), ")">> \o suffix(path)

\* Path.exists()
exists(path) == path \in DOMAIN disk

\* no except clause at all
caught_nothing(e) == FALSE

\* lines 110-120: the try around get_all_assignments has "except TypeError"
caught(e) == e = "TypeError" /\ entry \in {"get_answer_data", "main"}

\* lines 369-376: out_file, and i = 1 when it exists
MainExists ==
    /\ pc = "m_start"
    /\ out_file' = m_path
    /\ IF exists(m_path)
       THEN m_i' = 1 /\ pc' = "m_while"
       ELSE pc' = "m_call" /\ UNCHANGED m_i
    /\ UNCHANGED <<exc, in_vars, h_vars, a_vars, g_vars, m_path, a_ofile, write>>

\* lines 377-381: while add_i(out_file).exists(): i += 1; then
\* out_file = add_i(out_file)
MainWhile ==
    /\ pc = "m_while"
    /\ IF exists(add_i(out_file, m_i))
       THEN m_i' = m_i + 1 /\ UNCHANGED <<pc, out_file>>
       ELSE out_file' = add_i(out_file, m_i) /\ pc' = "m_call" /\ UNCHANGED m_i
    /\ UNCHANGED <<exc, in_vars, h_vars, a_vars, g_vars, m_path, a_ofile, write>>

\* lines 383-386: get_answer_data(client, str(out_file), hit_search_params=batch_params),
\* which calls get_all_assignments (line 111), which calls get_all_hits
\* (line 331)
MainCall ==
    /\ pc = "m_call"
    /\ a_ofile' = out_file
    /\ pc' = "h_call"
    /\ UNCHANGED <<exc, in_vars, h_vars, a_vars, g_vars, m_path, out_file, m_i, write>>

\* line 253 is about to raise
HitsItemTestRaises ==
    /\ pc = "h_for"
    /\ h_i <= Len(q.Items)
    /\ ~limit_reached
    /\ test_hit_raises(q.Items[h_i], hit_search_params)

\* line 349 is about to raise
AssignFilterTestRaises ==
    /\ pc = "a_filter"
    /\ a_j <= Len(assignments)
    /\ test_hit_raises(assignments[a_j], assignment_search_params)

\* a TypeError of the fetch: no handler of get_all_hits or
\* get_all_assignments takes it; get_answer_data's does (lines 118-120:
\* the message, and return without a value)
FetchRaises ==
    IF caught("TypeError")
    THEN pc' = "done" /\ d_pc' = "invalid" /\ UNCHANGED exc
    ELSE pc' = "raised" /\ exc' = "TypeError" /\ UNCHANGED d_pc

\* lines 250-253 with test_hit raising TypeError
HitsItemRaises ==
    /\ HitsItemTestRaises
    /\ processed' = processed + 1
    /\ h_state' = "raised"
    /\ FetchRaises
    /\ UNCHANGED <<in_vars, h_results, gathered, done, q, nt, h_i, h_interrupted,
                   requested, first_page, a_vars, g_vars, r_vars, w_vars,
                   d_assignments, d_hit_data, answer_names, d_results, d_i, d_exc>>

\* line 349 with test_hit raising TypeError
AssignFilterRaises ==
    /\ AssignFilterTestRaises
    /\ FetchRaises
    /\ UNCHANGED <<in_vars, h_vars, a_vars, g_vars, r_vars, w_vars,
                   d_assignments, d_hit_data, answer_names, d_results, d_i, d_exc>>

\* lines 111-117: get_all_assignments has returned assignments, hit_data
AnswerFetched ==
    /\ entry \in {"get_answer_data", "main"}
    /\ pc = "done"
    /\ d_pc = "off"
    /\ d_assignments' = a_results
    /\ d_hit_data' = hit_data
    /\ d_pc' = "scan"
    /\ UNCHANGED <<answer_names, d_results, d_i, d_exc>>

\* lines 161-162: write_ans_data_file(results, ofile); results' keys are in
\* the order lines 130-133 made them
AnswerWrite ==
    /\ d_pc = "build"
    /\ d_i = Len(d_assignments)
    /\ write
    /\ w_pc = "off"
    /\ w_data' = d_results
    /\ w_keys' = header \o answer_names
    /\ w_ofile' = a_ofile
    /\ w_ignore' = {}
    /\ w_select' = DefaultSelect
    /\ w_pc' = "select"
    /\ d_pc' = "write"
    /\ UNCHANGED <<d_assignments, d_hit_data, answer_names, d_results, d_i, d_exc,
                   w_titles, w_row, w_exc, disk, opened>>

\* line 164: return results, after the file is written
AnswerReturn ==
    /\ d_pc = "write"
    /\ w_pc = "done"
    /\ d_pc' = "done"
    /\ UNCHANGED <<d_assignments, d_hit_data, answer_names, d_results, d_i, d_exc>>

----------------------------------------------------------------------------
(* Each specification runs one of the programs; the variables of the       *)
(* others stay as they are here.                                           *)

FetchOff ==
    /\ pc = "off" /\ entry = "none" /\ exc = "none"
    /\ pages = <<>> /\ hit_search_params = NoFields /\ assignment_search_params = NoFields
    /\ max_hits = -1 /\ stop_after_first = FALSE /\ print_info = TRUE
    /\ h_results = <<>> /\ gathered = 0 /\ processed = 0 /\ done = 0
    /\ q = Page(<<>>, NoToken) /\ nt = NoToken /\ h_i = 1
    /\ h_state = "off" /\ h_interrupted = FALSE
    /\ requested = {} /\ first_page = <<>>
    /\ hits = <<>> /\ a_results = <<>> /\ hit_data = NoFields /\ cnt = <<>>
    /\ a_i = 0 /\ assignments = <<>> /\ a_j = 1
    /\ a_interrupted = <<>> /\ reported = <<>> /\ served = <<>>
    /\ g_results = <<>> /\ g_q = Page(<<>>, NoToken) /\ g_nt = NoToken

MatchOff == t_pc = "off" /\ t_hit = NoFields /\ t_params = NoFields /\ t_ret = FALSE

TableOff ==
    /\ d_pc = "off" /\ d_assignments = <<>> /\ d_hit_data = NoFields
    /\ answer_names = <<>> /\ d_results = NoFields /\ d_i = 0 /\ d_exc = "none"

RunOff ==
    /\ m_path = <<>> /\ out_file = <<>> /\ m_i = 0 /\ a_ofile = <<>> /\ write = TRUE

WriteOff ==
    /\ w_pc = "off" /\ w_data = NoFields /\ w_keys = <<>> /\ w_ofile = <<>>
    /\ w_ignore = {} /\ w_select = DefaultSelect /\ w_titles = <<>> /\ w_row = 0
    /\ w_exc = "none" /\ disk = NoFields /\ opened = <<>>

----------------------------------------------------------------------------
(* Spec: get_all_hits called on every listing of up to MaxItems HITs, and  *)
(* get_all_assignments called on every listing of up to MaxHits HITs with  *)
(* up to MaxAsg assignments each.                                          *)

\* the listings of n HITs
Listings(n) ==
    UNION { Partitions([k \in 1..n |-> HIT(k, ann[k])]) : ann \in [1..n -> Annotations] }

HitParams == { NoFields, "RequesterAnnotation" :> << <<"+", "a">> >> }

AssignmentParams == { NoFields, "AssignmentStatus" :> <<Approve>> }

FetchStart ==
    /\ pc = "h_call"
    /\ exc = "none"
    /\ h_results = <<>> /\ gathered = 0 /\ processed = 0 /\ done = 0
    /\ q = Page(<<>>, NoToken) /\ nt = NoToken /\ h_i = 1
    /\ h_state = "running" /\ h_interrupted = FALSE
    /\ requested = {} /\ first_page = <<>>
    /\ hits = <<>> /\ a_results = <<>> /\ hit_data = NoFields /\ cnt = <<>>
    /\ a_i = 0 /\ assignments = <<>> /\ a_j = 1
    /\ a_interrupted = <<>> /\ reported = <<>> /\ served = <<>>
    /\ g_results = <<>> /\ g_q = Page(<<>>, NoToken) /\ g_nt = NoToken

\* get_all_hits(client, hit_search_params, print_info, max_hits, stop_after_first)
HitsInit ==
    /\ entry = "get_all_hits"
    /\ \E n \in 0..MaxItems : pages \in Listings(n)
    /\ hit_search_params \in HitParams
    /\ max_hits \in -1..MaxItems
    /\ stop_after_first \in BOOLEAN
    /\ assignment_search_params = NoFields
    /\ print_info = TRUE
    /\ FetchStart

\* get_all_assignments(client, hit_search_params, assignment_search_params,
\*                     print_info, max_hits, stop_after_first_hit)
AssignInit ==
    /\ entry = "get_all_assignments"
    /\ \E n \in 0..MaxHits : pages \in Listings(n)
    /\ hit_search_params \in HitParams
    /\ max_hits \in -1..MaxHits
    /\ stop_after_first \in BOOLEAN
    /\ assignment_search_params \in AssignmentParams
    /\ print_info \in BOOLEAN
    /\ FetchStart

Init == (HitsInit \/ AssignInit) /\ MatchOff /\ TableOff /\ WriteOff /\ RunOff

Next ==
    \/ (HitsFirstPage /\ UNCHANGED <<t_vars, d_vars, w_vars, r_vars>>)
    \/ (HitsWhile /\ UNCHANGED <<t_vars, d_vars, w_vars, r_vars>>)
    \/ (HitsItem /\ UNCHANGED <<t_vars, d_vars, w_vars, r_vars>>)
    \/ (HitsBreak /\ UNCHANGED <<t_vars, d_vars, w_vars, r_vars>>)
    \/ (HitsNextPage /\ UNCHANGED <<t_vars, d_vars, w_vars, r_vars>>)
    \/ (HitsInterruptFirst /\ UNCHANGED <<t_vars, d_vars, w_vars, r_vars>>)
    \/ (HitsInterrupt /\ UNCHANGED <<t_vars, d_vars, w_vars, r_vars>>)
    \/ (HitsReturn /\ UNCHANGED <<t_vars, d_vars, w_vars, r_vars>>)
    \/ (AssignNextHit /\ UNCHANGED <<t_vars, d_vars, w_vars, r_vars>>)
    \/ (AssignmentsFirstPage /\ UNCHANGED <<t_vars, d_vars, w_vars, r_vars>>)
    \/ (AssignmentsWhile /\ UNCHANGED <<t_vars, d_vars, w_vars, r_vars>>)
    \/ (AssignmentsNextPage /\ UNCHANGED <<t_vars, d_vars, w_vars, r_vars>>)
    \/ (AssignFilter /\ UNCHANGED <<t_vars, d_vars, w_vars, r_vars>>)
    \/ (AssignCount /\ UNCHANGED <<t_vars, d_vars, w_vars, r_vars>>)
    \/ (AssignInterrupt /\ UNCHANGED <<t_vars, d_vars, w_vars, r_vars>>)
    \/ (AssignReturn /\ UNCHANGED <<t_vars, d_vars, w_vars, r_vars>>)

Spec == Init /\ [][Next]_vars

\* get_all_assignments with the defaults of max_hits and stop_after_first_hit
AssignDefaultsInit ==
    /\ entry = "get_all_assignments"
    /\ \E n \in 0..MaxHits : pages \in Listings(n)
    /\ hit_search_params \in HitParams
    /\ max_hits = -1
    /\ stop_after_first = FALSE
    /\ assignment_search_params \in AssignmentParams
    /\ print_info \in BOOLEAN
    /\ FetchStart

FairInit == (HitsInit \/ AssignDefaultsInit) /\ MatchOff /\ TableOff /\ WriteOff /\ RunOff

\* The program runs on: one thread, every call blocking, nothing else to
\* wait for.
FairSpec == FairInit /\ [][Next]_vars /\ WF_vars(Next)

----------------------------------------------------------------------------
(* MatchSpec: test_hit applied to the records and predicate specs within   *)
(* the bounds.  The inputs are of three kinds: one field with one pattern, *)
(* value and pattern being any strings of at most MaxStrLen characters;    *)
(* up to two fields with lists of up to MaxPats patterns, values and       *)
(* patterns taken from two small pools; and the records and specs of the   *)
(* documented examples.                                                    *)

\* every pattern against every value
PatternCases ==
    { <<"Status" :> h, "Status" :> <<p>>>> : h \in Strs(MaxStrLen), p \in Strs(MaxStrLen) }

ValuePool == { <<"a", "b">>, <<"b">> }

PatternPool == { <<"+", "a">>, <<"-", "b">>, <<"b">> }

\* functions from a subset of MatchFields to S
FieldMaps(S) == UNION {[D -> S] : D \in SUBSET MatchFields}

StructureCases ==
    { <<r, s>> : r \in FieldMaps(ValuePool),
                 s \in FieldMaps(SeqsUpTo(PatternPool, MaxPats)) }

Approved == <<"A", "p", "p", "r", "o", "v", "e", "d">>

Rejected == <<"R", "e", "j", "e", "c", "t", "e", "d">>

PlusApp == <<"+", "A", "p", "p">>

MinusEd == <<"-", "e", "d">>

ExampleCases ==
    { <<"Status" :> v, s>> :
        v \in {Approved, Rejected},
        s \in {NoFields, "Status" :> <<PlusApp>>, "Status" :> <<MinusEd>>} }

MatchInputs == PatternCases \cup StructureCases \cup ExampleCases

MatchInit ==
    /\ FetchOff
    /\ TableOff
    /\ WriteOff
    /\ RunOff
    /\ t_pc = "call"
    /\ \E inp \in MatchInputs : t_hit = inp[1] /\ t_params = inp[2]
    /\ t_ret = FALSE

\* the call returns
TestHit ==
    /\ t_pc = "call"
    /\ t_ret' = test_hit(t_hit, t_params)
    /\ t_pc' = "ret"
    /\ UNCHANGED <<t_hit, t_params, f_vars, d_vars, w_vars, r_vars>>

MatchNext == TestHit

MatchSpec == MatchInit /\ [][MatchNext]_vars

----------------------------------------------------------------------------
(* TableSpec: get_answer_data building its table from the assignments of  *)
(* up to MaxRows assignments, two to a HIT, whose Answer documents name     *)
(* any of AnswerNames, each at most once; the first assignment may carry a  *)
(* Title of its own.                                                        *)

\* the names the HITs' question forms use: two of their own, and one that
\* is also a column of the header
AnswerNames == {"a", "b", "Title"}

NameLists == { s \in SeqsUpTo(AnswerNames, Cardinality(AnswerNames)) : NoRepeats(s) }

\* every assignment answers with values of its own
AnswerValue(name, i) == <<name, ToString(i)>>

\* two assignments to a HIT
HitOf(i) == (i + 1) \div 2

TableHIT(k) ==
    ("HITId" :> Id(k)) @@ ("Title" :> <<"t", ToString(k)>>)
    @@ ("RequesterAnnotation" :> <<"a">>)

\* fields of the header an assignment may carry besides those every
\* assignment has: none, or a Title of its own
OwnFields(i) == { NoFields, "Title" :> <<"u", ToString(i)>> }

TableAssignment(i, names, own) ==
    ("HITId" :> Id(HitOf(i))) @@ ("AssignmentId" :> Id(HitOf(i)) \o <<".">> \o Id(i))
    @@ ("WorkerId" :> <<"w", ToString(i)>>) @@ ("AssignmentStatus" :> Approve)
    @@ ("Answer" :> [k \in 1..Len(names) |-> <<names[k], AnswerValue(names[k], i)>>])
    @@ own

TableInit ==
    /\ MatchOff
    /\ FetchOff
    /\ WriteOff
    /\ m_path = <<>> /\ out_file = <<>> /\ m_i = 0 /\ a_ofile = <<>>
    /\ write = FALSE
    /\ d_pc = "scan"
    /\ \E n \in 0..MaxRows :
          /\ \E names \in [1..n -> NameLists], own \in OwnFields(1) :
                d_assignments = [i \in 1..n |->
                                    TableAssignment(i, names[i], IF i = 1 THEN own ELSE NoFields)]
          /\ d_hit_data = [id \in { Id(HitOf(i)) : i \in 1..n } |->
                              TableHIT(CHOOSE k \in 1..n : Id(k) = id)]
    /\ answer_names = <<>>
    /\ d_results = NoFields
    /\ d_i = 0
    /\ d_exc = "none"

TableNext ==
    \/ (TableScan /\ UNCHANGED <<t_vars, f_vars, w_vars, r_vars>>)
    \/ (TableColumns /\ UNCHANGED <<t_vars, f_vars, w_vars, r_vars>>)
    \/ (TableRow /\ UNCHANGED <<t_vars, f_vars, w_vars, r_vars>>)
    \/ (TableReturn /\ UNCHANGED <<t_vars, f_vars, w_vars, r_vars>>)

TableSpec == TableInit /\ [][TableNext]_vars

----------------------------------------------------------------------------
(* WriteSpec: write_ans_data_file called on the tables of up to MaxCols    *)
(* columns, named from ColumnPool, and up to MaxWriteRows rows, with every *)
(* ignore list and with select left out, 'score' or a list of two names.   *)

\* column names: three of the score preset, one that is not
ColumnPool == {"HITId", "Title", "Feedback", "x"}

\* the cells of a column: the first holds a character that is not ASCII,
\* the second is empty
WriteCell(c, i) ==
    IF i = 1 THEN <<c, "xe7">>
    ELSE IF i = 2 THEN <<>>
    ELSE <<c, ToString(i)>>

OutPath == <<"o", ".", "c">>

WriteInit ==
    /\ MatchOff
    /\ FetchOff
    /\ TableOff
    /\ RunOff
    /\ w_pc = "select"
    /\ w_keys \in { s \in SeqsUpTo(ColumnPool, MaxCols) : NoRepeats(s) }
    /\ \E n \in 0..MaxWriteRows :
          w_data = [c \in Range(w_keys) |-> [i \in 1..n |-> WriteCell(c, i)]]
    /\ w_ofile = OutPath
    /\ w_ignore \in SUBSET ColumnPool
    /\ w_select \in {DefaultSelect, ScoreSelect, ListSelect(<<"x", "HITId">>)}
    /\ w_titles = <<>>
    /\ w_row = 0
    /\ w_exc = "none"
    /\ disk \in { NoFields, OutPath :> << <<"old">> >> }
    /\ opened = <<>>

WriteNext ==
    \/ (WriteSelect /\ UNCHANGED <<t_vars, f_vars, d_vars, r_vars>>)
    \/ (WriteOpen /\ UNCHANGED <<t_vars, f_vars, d_vars, r_vars>>)
    \/ (WriteRow /\ UNCHANGED <<t_vars, f_vars, d_vars, r_vars>>)

WriteSpec == WriteInit /\ [][WriteNext]_vars

----------------------------------------------------------------------------
(* RunSpec: main, and get_answer_data called with well-formed and with     *)
(* malformed search parameters, on the one-page listings of up to          *)
(* MaxRunHits HITs with up to MaxAsg assignments each, the output path and *)
(* its numbered variants up to MaxSuffix existing or not.                  *)

\* a file that is there before the run
OldFile == << <<"old">> >>

\* config['CURRENT']['output_data_file']: a name with and one without an
\* extension
ConfigPaths == { OutPath, <<"o">> }

\* the files that may exist: the path itself and its numbered variants
Disks(path) ==
    { [f \in S |-> OldFile] :
        S \in SUBSET ({path} \cup { add_i(path, i) : i \in 1..MaxSuffix }) }

\* line 364: batch_params, the '+' and '++' forms of tools.py:106-107
BatchParams == "RequesterAnnotation" :> << <<"+", "a">>, <<"+", "+", "a">> >>

\* a pattern list that holds an int
MalformedHitParams == "RequesterAnnotation" :> << <<"+", "a">>, IntPattern >>

MalformedAssignmentParams == "AssignmentStatus" :> << Approve, IntPattern >>

\* the listings of up to MaxRunHits HITs, all on one page
RunListings ==
    UNION { { Chunks([k \in 1..n |-> HIT(k, ann[k])], MaxRunHits) :
                ann \in [1..n -> Annotations] } : n \in 0..MaxRunHits }

\* the locals of the three fetch functions at their entry
FetchLocals ==
    /\ exc = "none"
    /\ h_results = <<>> /\ gathered = 0 /\ processed = 0 /\ done = 0
    /\ q = Page(<<>>, NoToken) /\ nt = NoToken /\ h_i = 1
    /\ h_state = "running" /\ h_interrupted = FALSE
    /\ requested = {} /\ first_page = <<>>
    /\ hits = <<>> /\ a_results = <<>> /\ hit_data = NoFields /\ cnt = <<>>
    /\ a_i = 0 /\ assignments = <<>> /\ a_j = 1
    /\ a_interrupted = <<>> /\ reported = <<>> /\ served = <<>>
    /\ g_results = <<>> /\ g_q = Page(<<>>, NoToken) /\ g_nt = NoToken

\* python get_results.py
MainInit ==
    /\ entry = "main"
    /\ pc = "m_start"
    /\ hit_search_params = BatchParams
    /\ assignment_search_params = NoFields
    /\ write = TRUE
    /\ stop_after_first = FALSE
    /\ m_path \in ConfigPaths
    /\ disk \in Disks(m_path)
    /\ a_ofile = <<>>

\* get_answer_data(client, ofile, hit_search_params, assignment_search_params, write)
AnswerInit ==
    /\ entry = "get_answer_data"
    /\ pc = "h_call"
    /\ hit_search_params \in HitParams \cup {MalformedHitParams}
    /\ assignment_search_params \in {NoFields, MalformedAssignmentParams}
    /\ write \in BOOLEAN
    /\ stop_after_first \in BOOLEAN
    /\ m_path = <<>>
    /\ disk = NoFields
    /\ a_ofile = OutPath

RunInit ==
    /\ (MainInit \/ AnswerInit)
    /\ pages \in RunListings
    /\ max_hits = -1
    /\ print_info = TRUE
    /\ FetchLocals
    /\ out_file = <<>> /\ m_i = 0
    /\ MatchOff
    /\ TableOff
    /\ w_pc = "off" /\ w_data = NoFields /\ w_keys = <<>> /\ w_ofile = <<>>
    /\ w_ignore = {} /\ w_select = DefaultSelect /\ w_titles = <<>> /\ w_row = 0
    /\ w_exc = "none" /\ opened = <<>>

RunNext ==
    \/ (MainExists /\ UNCHANGED <<t_vars, d_vars, w_vars>>)
    \/ (MainWhile /\ UNCHANGED <<t_vars, d_vars, w_vars>>)
    \/ (MainCall /\ UNCHANGED <<t_vars, d_vars, w_vars>>)
    \/ (HitsFirstPage /\ UNCHANGED <<t_vars, d_vars, w_vars, r_vars>>)
    \/ (HitsWhile /\ UNCHANGED <<t_vars, d_vars, w_vars, r_vars>>)
    \/ (~HitsItemTestRaises /\ HitsItem /\ UNCHANGED <<t_vars, d_vars, w_vars, r_vars>>)
    \/ (HitsItemRaises /\ UNCHANGED t_vars)
    \/ (HitsBreak /\ UNCHANGED <<t_vars, d_vars, w_vars, r_vars>>)
    \/ (HitsNextPage /\ UNCHANGED <<t_vars, d_vars, w_vars, r_vars>>)
    \/ (HitsInterruptFirst /\ UNCHANGED <<t_vars, d_vars, w_vars, r_vars>>)
    \/ (HitsInterrupt /\ UNCHANGED <<t_vars, d_vars, w_vars, r_vars>>)
    \/ (HitsReturn /\ UNCHANGED <<t_vars, d_vars, w_vars, r_vars>>)
    \/ (AssignNextHit /\ UNCHANGED <<t_vars, d_vars, w_vars, r_vars>>)
    \/ (AssignmentsFirstPage /\ UNCHANGED <<t_vars, d_vars, w_vars, r_vars>>)
    \/ (AssignmentsWhile /\ UNCHANGED <<t_vars, d_vars, w_vars, r_vars>>)
    \/ (AssignmentsNextPage /\ UNCHANGED <<t_vars, d_vars, w_vars, r_vars>>)
    \/ (~AssignFilterTestRaises /\ AssignFilter /\ UNCHANGED <<t_vars, d_vars, w_vars, r_vars>>)
    \/ (AssignFilterRaises /\ UNCHANGED t_vars)
    \/ (AssignCount /\ UNCHANGED <<t_vars, d_vars, w_vars, r_vars>>)
    \/ (AssignInterrupt /\ UNCHANGED <<t_vars, d_vars, w_vars, r_vars>>)
    \/ (AssignReturn /\ UNCHANGED <<t_vars, d_vars, w_vars, r_vars>>)
    \/ (AnswerFetched /\ UNCHANGED <<t_vars, f_vars, w_vars, r_vars>>)
    \/ (TableScan /\ UNCHANGED <<t_vars, f_vars, w_vars, r_vars>>)
    \/ (TableColumns /\ UNCHANGED <<t_vars, f_vars, w_vars, r_vars>>)
    \/ (TableRow /\ UNCHANGED <<t_vars, f_vars, w_vars, r_vars>>)
    \/ (TableReturn /\ UNCHANGED <<t_vars, f_vars, w_vars, r_vars>>)
    \/ (AnswerWrite /\ UNCHANGED <<t_vars, f_vars, r_vars>>)
    \/ (WriteSelect /\ UNCHANGED <<t_vars, f_vars, d_vars, r_vars>>)
    \/ (WriteOpen /\ UNCHANGED <<t_vars, f_vars, d_vars, r_vars>>)
    \/ (WriteRow /\ UNCHANGED <<t_vars, f_vars, d_vars, r_vars>>)
    \/ (AnswerReturn /\ UNCHANGED <<t_vars, f_vars, w_vars, r_vars>>)

RunSpec == RunInit /\ [][RunNext]_vars

----------------------------------------------------------------------------
(* What the claims are stated with.                                        *)

\* v starts with s, v ends with s: by the characters
StartsWith(v, s) == \E k \in 0..Len(v) : v = s \o SubSeq(v, k + 1, Len(v))

EndsWith(v, s) == \E k \in 0..Len(v) : v = SubSeq(v, 1, k) \o s

\* the rule by which a pattern matches a value
PatternMatches(p, v) ==
    IF p = <<>> THEN v = <<>>
    ELSE IF p[1] = "+" THEN StartsWith(v, Rest(p))
    ELSE IF p[1] = "-" THEN EndsWith(v, Rest(p))
    ELSE p = v

\* every field of S is a key of R, and one of its patterns matches R's value
Matches(R, S) ==
    \A f \in DOMAIN S :
        f \in DOMAIN R /\ \E k \in 1..Len(S[f]) : PatternMatches(S[f][k], R[f])

\* the items of the listing, page after page
AllItems == Flatten(pages)

RECURSIVE IsSubsequence(_, _)
IsSubsequence(s, t) ==
    IF s = <<>> THEN TRUE
    ELSE IF t = <<>> THEN FALSE
    ELSE IF Head(s) = Head(t) THEN IsSubsequence(Tail(s), Tail(t))
    ELSE IsSubsequence(s, Tail(t))

HitAccepted(h) == Matches(h, hit_search_params)

AssignmentAccepted(a) == Matches(a, assignment_search_params)

\* the accepted assignments of the first k HITs of hits, in HIT order and
\* arrival order
RECURSIVE AcceptedAssignments(_)
AcceptedAssignments(k) ==
    IF k = 0 THEN <<>>
    ELSE AcceptedAssignments(k - 1)
         \o SelectSeq(Flatten(AssignmentListing(hits[k]["HITId"], served[k])),
                      AssignmentAccepted)

\* the QuestionIdentifier names of the Answer documents, assignment after
\* assignment, answer after answer
RECURSIVE NamesOf(_)
NamesOf(as) ==
    IF as = <<>> THEN <<>>
    ELSE [k \in 1..Len(Head(as)["Answer"]) |-> Head(as)["Answer"][k][1]] \o NamesOf(Tail(as))

\* s without the later occurrences of its members
RECURSIVE FirstSeen(_)
FirstSeen(s) ==
    IF s = <<>> THEN <<>>
    ELSE LET before == FirstSeen(SubSeq(s, 1, Len(s) - 1))
         IN  IF s[Len(s)] \in Range(before) THEN before ELSE Append(before, s[Len(s)])

NotInHeader(name) == name \notin Range(header)

InAssignmentsCall == pc \in {"g_call", "g_while", "g_next"}

----------------------------------------------------------------------------
(* The claims.                                                             *)

\* C1: test_hit(R, S) is true exactly when every field of S is a key of R
\* and one of the field's patterns matches R's value, the empty pattern
\* matching the empty value only, '+...' by prefix, '-...' by suffix, any
\* other pattern by equality; the empty S matches every record, +App matches
\* Approved and not Rejected, -ed matches both.
C1_TestHitMatches ==
    t_pc = "ret" =>
        /\ t_ret = Matches(t_hit, t_params)
        /\ (t_params = NoFields => t_ret)
        /\ (t_params = ("Status" :> <<PlusApp>>) /\ t_hit = ("Status" :> Approved) => t_ret)
        /\ (t_params = ("Status" :> <<PlusApp>>) /\ t_hit = ("Status" :> Rejected) => ~t_ret)
        /\ (t_params = ("Status" :> <<MinusEd>>) /\ t_hit \in {"Status" :> Approved, "Status" :> Rejected}
              => t_ret)

\* test_hit has returned true for a record of two fields whose first
\* pattern of one field fails and whose second matches by prefix
C1_Witness ==
    /\ t_pc = "ret"
    /\ t_ret
    /\ DOMAIN t_params = MatchFields
    /\ t_hit["Status"] = <<"a", "b">>
    /\ t_params["Status"] = << <<"b">>, <<"+", "a">> >>

\* C2: on a listing that ends with a page of count zero get_all_hits comes
\* to its end (it returns, or the interruption of its first request leaves
\* it), and every call of get_hit_assignments comes to its end.
C2_FetchTerminates ==
    /\ <>(h_state = "returned" \/ (h_state = "raised" /\ exc = "KeyboardInterrupt"))
    /\ [](InAssignmentsCall => <>(~InAssignmentsCall))

\* get_hit_assignments has returned the assignments of two pages, after
\* get_all_hits returned from a listing of two pages
C2_Witness ==
    /\ pc = "a_filter"
    /\ Len(assignments) = 2
    /\ h_state = "returned"
    /\ Len(pages) = 2
    /\ Cardinality(requested) = 3

\* C3: the list get_all_hits returns is a subsequence of the listing's
\* items without repeats, each of its items satisfies the predicate spec,
\* and with max_hits not positive, stop_after_first false and no
\* interruption it is the listing's items that satisfy the spec.
C3_HitsAreTheMatches ==
    h_state = "returned" =>
        /\ IsSubsequence(hits, AllItems)
        /\ NoRepeats(hits)
        /\ \A i \in 1..Len(hits) : HitAccepted(hits[i])
        /\ (max_hits <= 0 /\ ~stop_after_first /\ ~h_interrupted
              => hits = SelectSeq(AllItems, HitAccepted))

\* get_all_hits has returned, uninterrupted and unlimited, two of the three
\* items of a listing of two pages
C3_Witness ==
    /\ h_state = "returned"
    /\ max_hits <= 0 /\ ~stop_after_first /\ ~h_interrupted
    /\ Len(pages) = 2
    /\ Len(AllItems) = 3
    /\ Len(hits) = 2

\* C4: with stop_after_first, no page after the page of the first accepted
\* HIT is ever requested.
C4_NoPageAfterFirstMatch ==
    (stop_after_first /\ first_page # <<>>) =>
        \A tok \in requested : tok[1] <= first_page[1]

\* C5: with max_hits = n > 0, once n HITs are in the result no further HIT
\* is accepted and no further page is requested.
C5_NothingPastTheLimit ==
    [][(h_state = "running" /\ 0 < max_hits /\ max_hits <= gathered)
         => (h_results' = h_results /\ requested' = requested)]_vars

\* C6: a KeyboardInterrupt during the HIT fetch, the first request
\* included, never leaves get_all_hits: the function returns the items
\* accepted so far.
C6_InterruptNeverLeaves ==
    /\ exc # "KeyboardInterrupt"
    /\ (h_interrupted /\ h_state = "returned" => hits = h_results)

\* C7: when get_all_assignments returns, every returned assignment's HITId
\* is a key of hit_data, the entry is the HIT of hits with that id, and the
\* keys of hit_data are the ids of the HITs whose round of the loop began.
C7_IndexCoversAssignments ==
    (entry = "get_all_assignments" /\ pc = "done") =>
        /\ \A i \in 1..Len(a_results) :
              /\ a_results[i]["HITId"] \in DOMAIN hit_data
              /\ \E j \in 1..Len(hits) :
                    /\ hits[j]["HITId"] = a_results[i]["HITId"]
                    /\ hit_data[a_results[i]["HITId"]] = hits[j]
        /\ DOMAIN hit_data = { hits[j]["HITId"] : j \in 1..a_i }
        /\ \A k \in DOMAIN hit_data : hit_data[k]["HITId"] = k

\* get_all_assignments has returned after an interruption at its second
\* HIT, with an assignment of the first
C7_Witness ==
    /\ entry = "get_all_assignments"
    /\ pc = "done"
    /\ a_interrupted = <<1>>
    /\ a_i = 2
    /\ Len(a_results) >= 1

\* C8: interrupted at the HIT of index k, get_all_assignments does not
\* raise; it returns the accepted assignments of the HITs before k and none
\* of HIT k or later, and reports k HITs.
C8_InterruptedReturnsPrefix ==
    a_interrupted # <<>> =>
        /\ exc = "none"
        /\ (pc = "done" =>
              /\ a_results = AcceptedAssignments(a_interrupted[1])
              /\ reported = a_interrupted)

\* C9: answer_names is the distinct QuestionIdentifier names of all the
\* assignments in first-seen order without the names of the header, no
\* name twice, and it is complete before the table gets its first row.
C9_AnswerNamesFirstSeen ==
    /\ d_pc \in {"build", "done"} =>
          /\ answer_names = SelectSeq(FirstSeen(NamesOf(d_assignments)), NotInHeader)
          /\ NoRepeats(answer_names)
    /\ d_pc = "scan" => DOMAIN d_results = {}

\* the scan is over: the second assignment brought a name the first did not
\* have, and a name of the header was met
C9_Witness ==
    /\ d_pc = "build"
    /\ Len(d_assignments) >= 2
    /\ answer_names = <<"a", "b">>
    /\ NamesOf(SubSeq(d_assignments, 1, 1)) = <<"Title", "a">>

\* C10: once the table is set up, and after every assignment, each column
\* is as long as the number of assignments dealt with.
C10_ColumnsAligned ==
    d_pc \in {"build", "done"} =>
        \A c \in DOMAIN d_results : Len(d_results[c]) = d_i

\* the value assignment i supplies for the answer field f, '' when it
\* supplies none
Supplied(i, f) ==
    LET doc == d_assignments[i]["Answer"]
    IN  IF \E k \in 1..Len(doc) : doc[k][1] = f
        THEN doc[CHOOSE k \in 1..Len(doc) : doc[k][1] = f][2]
        ELSE <<>>

\* C11: get_answer_data builds its table for every sequence of assignments,
\* and the cell of row i in the column of a discovered answer field f is the
\* value assignment i supplies for f, '' when it supplies none.
C11_CellsAreTheAnswers ==
    /\ d_exc = "none"
    /\ d_pc \in {"build", "done"} =>
          \A f \in Range(answer_names) : \A i \in 1..d_i :
              /\ i <= Len(d_results[f])
              /\ d_results[f][i] = Supplied(i, f)

\* the assignment the row in progress is built from
RowAssignment == d_assignments[d_i + 1]

\* the HIT record of the index for that assignment
RowHit == d_hit_data[RowAssignment["HITId"]]

\* the cell the row in progress added to the header column h
RowCell(h) == d_results'[h][Len(d_results[h]) + 1]

RowBuilt == d_pc = "build" /\ d_i' = d_i + 1

\* C12 as stated: the cell of a header column is the assignment's value
\* when the assignment has the field, else the HIT's, else ''.
C12_AssignmentValueFirst ==
    [][RowBuilt =>
          \A k \in 1..Len(header) :
              RowCell(header[k]) =
                  IF header[k] \in DOMAIN RowAssignment THEN RowAssignment[header[k]]
                  ELSE IF header[k] \in DOMAIN RowHit THEN RowHit[header[k]]
                  ELSE <<>>]_vars

\* C12 amended: the cell of a header column is the HIT record's value when
\* the HIT has the field, else the assignment's value when the assignment
\* has it, else ''; the HIT's value takes precedence.
C12_HitValueFirst ==
    [][RowBuilt =>
          \A k \in 1..Len(header) :
              RowCell(header[k]) =
                  IF header[k] \in DOMAIN RowHit THEN RowHit[header[k]]
                  ELSE IF header[k] \in DOMAIN RowAssignment THEN RowAssignment[header[k]]
                  ELSE <<>>]_vars

\* the first row is built from an assignment that carries a Title unlike its
\* HIT's: the Title cell is the HIT's, the WorkerId cell the assignment's,
\* the RejectionTime cell, which neither has, is ''
C12_Witness ==
    /\ d_pc = "build"
    /\ d_i >= 1
    /\ "Title" \in DOMAIN d_assignments[1]
    /\ d_assignments[1]["Title"] # d_hit_data[d_assignments[1]["HITId"]]["Title"]
    /\ d_results["Title"][1] = d_hit_data[d_assignments[1]["HITId"]]["Title"]
    /\ d_results["WorkerId"][1] = d_assignments[1]["WorkerId"]
    /\ d_results["RejectionTime"][1] = <<>>

\* get_all_assignments has returned without an interruption
ReturnedUninterrupted ==
    /\ entry = "get_all_assignments"
    /\ pc = "done"
    /\ ~h_interrupted
    /\ a_interrupted = <<>>

\* C16: print_info never affects the result: no run raises for want of the
\* progress counters, and what an uninterrupted get_all_assignments returns
\* is fixed by the HITs and the assignments fetched, whatever print_info is.
C16_PrintInfoIsAdvisory ==
    /\ exc # "UnboundLocalError"
    /\ ReturnedUninterrupted =>
          /\ a_results = AcceptedAssignments(Len(hits))
          /\ DOMAIN hit_data = { hits[j]["HITId"] : j \in 1..Len(hits) }

\* a list_hits request is made, a list_assignments_for_hit request is made
HitsRequest == pc \in {"h_call", "h_after"} /\ pc' = "h_while"

AssignmentsRequest == pc \in {"g_call", "g_next"} /\ pc' = "g_while"

\* C17: in both loops the first request asks for the first page and every
\* later request carries the token of the page in hand, whose count is
\* positive, whose items have all been scanned, once each and in order, and
\* which was not requested before; a token is read only from a page of
\* positive count; after a page of count zero no request is made.
C17_PaginationProtocol ==
    [][/\ HitsRequest =>
             \/ /\ pc = "h_call"
                /\ requested = {}
                /\ q' = Page(pages, FirstToken)
             \/ /\ pc = "h_after"
                /\ q.NumResults > 0
                /\ nt = q.NextToken
                /\ nt \notin requested
                /\ h_i = Len(q.Items) + 1
                /\ processed >= Len(q.Items)
                /\ q' = Page(pages, q.NextToken)
       /\ nt' # nt => (q.NumResults > 0 /\ nt' = q.NextToken)
       /\ h_i' # h_i =>
             \/ (h_i' = h_i + 1 /\ h_i <= Len(q.Items) /\ processed' = processed + 1)
             \/ (h_i' = 1 /\ pc = "h_while")
       /\ AssignmentsRequest =>
             \/ /\ pc = "g_call"
                /\ g_results = <<>>
                /\ g_q' = Page(AssignmentListing(g_hitid, served'[Len(served')]), FirstToken)
             \/ /\ pc = "g_next"
                /\ g_q.NumResults > 0
                /\ g_nt = g_q.NextToken
                /\ g_q' = Page(AssignmentListing(g_hitid, served[Len(served)]), g_q.NextToken)
                /\ g_q' # g_q
                /\ Len(g_results) >= Len(g_q.Items)
                /\ SubSeq(g_results, Len(g_results) - Len(g_q.Items) + 1, Len(g_results)) = g_q.Items
       /\ g_nt' # g_nt => (g_q.NumResults > 0 /\ g_nt' = g_q.NextToken)
       /\ (g_results' # g_results /\ pc = "g_while") => g_results' = g_results \o g_q.Items
      ]_vars

\* both loops have asked for a second page and after it for the page of
\* count zero
C17_Witness ==
    /\ pc = "a_cnt"
    /\ requested = { <<1>>, <<2>>, <<3>> }
    /\ Len(pages) = 2
    /\ served[Len(served)] = 2
    /\ g_nt = <<3>>
    /\ g_q.NumResults = 0

Min(a, b) == IF a <= b THEN a ELSE b

Written == w_pc \in {"rows", "done", "raised"}

\* the header row and the data rows of the file
HeaderRow == disk[w_ofile][1]

DataRow(r) == disk[w_ofile][r + 1]

NotIgnored(c) == c \notin w_ignore

InTable(c) == c \in DOMAIN w_data

\* the data rows written list the columns of the header row, in its order
RowsFollowHeader ==
    /\ Len(disk[w_ofile]) = w_row + 1
    /\ \A r \in 1..w_row :
          /\ Len(DataRow(r)) = Len(HeaderRow)
          /\ \A k \in 1..Len(HeaderRow) :
                DataRow(r)[k] = ascii_cell(w_data[HeaderRow[k]][r])

\* C14 as stated: the columns written are all the table's columns in table
\* order by default and exactly the ten of the score preset in preset order
\* with select = 'score', in both cases less those named in ignore and no
\* other, and every data row lists the header's columns.
C14_ColumnsAsSelected ==
    Written =>
        /\ (w_select.names = w_keys => HeaderRow = SelectSeq(w_keys, NotIgnored))
        /\ (w_select.names = score_preset => HeaderRow = SelectSeq(score_preset, NotIgnored))
        /\ RowsFollowHeader

\* C14 amended: with select = 'score' the columns written are those of the
\* ten preset names that are columns of the table, in preset order, less
\* those named in ignore; by default all the table's columns in table order
\* less those named in ignore; every data row lists the header's columns.
C14_ColumnsOfTheTable ==
    Written =>
        /\ (w_select.names = w_keys => HeaderRow = SelectSeq(w_keys, NotIgnored))
        /\ (w_select.names = score_preset =>
              /\ HeaderRow = SelectSeq(SelectSeq(score_preset, InTable), NotIgnored)
              /\ \A c \in Range(score_preset) :
                    c \in Range(HeaderRow) <=> (InTable(c) /\ NotIgnored(c)))
        /\ RowsFollowHeader

\* the score view of a table that holds Feedback, Title, HITId in this order
\* has been written without the ignored Title: two rows under HITId, Feedback
C14_Witness ==
    /\ w_pc = "done"
    /\ w_select.names = score_preset
    /\ w_keys = <<"Feedback", "Title", "HITId">>
    /\ w_ignore = {"Title"}
    /\ w_row = 2
    /\ disk[w_ofile][1] = <<"HITId", "Feedback">>
    /\ disk[w_ofile][2] = << <<"HITId", "c">>, <<"Feedback", "c">> >>

\* the files that were there before the run wrote anything
Before ==
    IF opened # <<>> /\ ~opened[1].existed
    THEN DOMAIN disk \ {opened[1].path}
    ELSE DOMAIN disk

\* the path P with (i) before its extension, for the two configured names
Numbered(P, i) ==
    IF P = <<"o", ".", "c">>
    THEN <<"o", "(", ToString(i), ")", ".", "c">>
    ELSE P \o <<"(", ToString(i), ")">>

\* C13: a run of main opens one file at most, one that did not exist: the
\* configured path P when P did not exist, otherwise P with (i) before the
\* extension for the smallest i >= 1 whose path did not exist.
C13_NeverOverwrites ==
    (entry = "main" /\ opened # <<>>) =>
        /\ Len(opened) = 1
        /\ ~opened[1].existed
        /\ IF m_path \notin Before
           THEN opened[1].path = m_path
           ELSE \E i \in 1..(MaxSuffix + 1) :
                    /\ opened[1].path = Numbered(m_path, i)
                    /\ Numbered(m_path, i) \notin Before
                    /\ \A j \in 1..(i - 1) : Numbered(m_path, j) \in Before

C13_Witness ==
    /\ entry = "main"
    /\ w_pc = "done"
    /\ <<"o", ".", "c">> \in Before
    /\ <<"o", "(", "1", ")", ".", "c">> \in Before
    /\ opened = << [path |-> <<"o", "(", "2", ")", ".", "c">>, existed |-> FALSE] >>

\* C15: in a call of get_answer_data no TypeError of the fetch leaves the
\* function; once one was raised the call has ended with no table and
\* nothing was opened or written, whatever write is.
C15_TypeErrorCaught ==
    entry = "get_answer_data" =>
        /\ exc # "TypeError"
        /\ d_pc = "invalid" =>
              /\ pc = "done"
              /\ exc = "none"
              /\ d_results = NoFields
              /\ w_pc = "off"
              /\ opened = <<>>
              /\ disk = NoFields

C15_Witness ==
    /\ entry = "get_answer_data"
    /\ d_pc = "invalid"
    /\ write
    /\ processed > 0

=========================================================================
